---- MODULE Spec2Model ----
(***************************************************************************)
(* Daily traffic prediction update (daily_update.py, generate_dashboard.py) *)
(* as a state machine: one run of main(), from the creation of the output   *)
(* directory to the success message, the "Prediction failed!" return, the   *)
(* top-level exception handler, or an exception leaving main().             *)
(*                                                                          *)
(* A DataFrame is a record [columns, rows]: the column names in order and   *)
(* the rows in order, each row a record keyed by column name.  A Timestamp  *)
(* is [days, minutes]: days since 1970-01-01 and minute of the day.  A      *)
(* regression model is [bias, weights]: an affine function of the feature   *)
(* vector, read positionally, as XGBoost reads the feature matrix.          *)
(***************************************************************************)
EXTENDS Integers, Sequences, FiniteSets, TLC

VARIABLES
    pc,                 \* position of main()
    calls,              \* methods and external calls invoked so far, in order
    printed,            \* the marker messages printed so far, in order
    exception,          \* the exception in flight: NoException or the raising call
    caught,             \* the handlers that caught an exception: <<handler, call>>
    models,             \* self.model_visitors / model_vehicles / model_traffic
    fetched,            \* the table get_weather_forecast returned (None if none)
    ca_holidays,        \* holidays.Canada(prov='ON') restricted to the forecast dates
    weather_data,       \* the DataFrame object run_full_prediction works on
    X_stage1,           \* feature matrix handed to the stage-1 models
    X_stage2,           \* feature matrix handed to the traffic model
    batch_data,         \* main()'s batch_data
    charts,             \* main()'s charts
    files,              \* the artifacts of this run in OUTPUT_DIR: absent, partial, written
    previous            \* what an earlier call of run_full_prediction on this
                        \* predictor returned (None if there was none)

vars == <<pc, calls, printed, exception, caught, models, fetched, ca_holidays,
          weather_data, X_stage1, X_stage2, batch_data, charts, files, previous>>

\* Python's None: a value equal to no DataFrame, model or chart dictionary
None == [none |-> TRUE]
NoException == "NoException"

----------------------------------------------------------------------------
(* Bounds of the model *)

\* the longest daily forecast the weather provider returns (typically 7)
MaxDays == 7
\* the most official holidays falling on the dates of one forecast
MaxHolidays == 1

\* first day of the forecast, in days since 1970-01-01:
\* 2025-11-24 Mon, 2025-12-24 Wed, 2025-12-27 Sat, 2026-03-02 Mon,
\* 2026-11-26 Thu, 2026-12-30 Wed
StartDays == {20416, 20446, 20449, 20514, 20783, 20817}

\* the lengths of the daily forecast: none of the hourly rows falls at noon,
\* a single day, the full forecast
ForecastLengths == {0, 1, MaxDays}

\* noon temperature of the first forecast day; later days differ by row
Temperatures == {-3, 5}

----------------------------------------------------------------------------
(* Sequences and DataFrames *)

Range(s) == {s[i] : i \in 1..Len(s)}

Min(a, b) == IF a <= b THEN a ELSE b

RECURSIVE Sum(_)
Sum(s) == IF Len(s) = 0 THEN 0 ELSE s[1] + Sum(Tail(s))

\* the number of entries of s equal to x
Count(s, x) == Cardinality({i \in 1..Len(s) : s[i] = x})

\* len(df)
NRows(df) == Len(df.rows)

\* df[name]: one column, as a sequence in row order
Column(df, name) == [i \in 1..NRows(df) |-> df.rows[i][name]]

\* df[features]: a new frame holding the named columns, in the order named
SelectColumns(df, features) ==
    [columns |-> features,
     rows    |-> [i \in 1..NRows(df) |->
                    [c \in Range(features) |-> df.rows[i][c]]]]

\* df[name] = values: replaces the column in place, or appends it as the last
\* column; values are aligned to the rows by position
SetColumn(df, name, values) ==
    [columns |-> IF name \in Range(df.columns) THEN df.columns
                 ELSE Append(df.columns, name),
     rows    |-> [i \in 1..NRows(df) |->
                    [c \in Range(df.columns) \cup {name} |->
                        IF c = name THEN values[i] ELSE df.rows[i][c]]]]

\* series.apply(f) is written [i \in 1..Len(series) |-> f(series[i])] at its uses

----------------------------------------------------------------------------
(* Dates *)

\* Timestamp.dayofweek: Monday = 0 ... Sunday = 6 (1970-01-01 was a Thursday)
dayofweek(date_obj) == (date_obj.days + 3) % 7

\* Timestamp.date(): the civil date of the timestamp, its time of day dropped
date(date_obj) ==
    LET z   == date_obj.days + 719468
        era == z \div 146097
        doe == z - era * 146097
        yoe == (doe - (doe \div 1460) + (doe \div 36524) - (doe \div 146096)) \div 365
        doy == doe - (365 * yoe + (yoe \div 4) - (yoe \div 100))
        mp  == (5 * doy + 2) \div 153
        d   == doy - ((153 * mp + 2) \div 5) + 1
        m   == IF mp < 10 THEN mp + 3 ELSE mp - 9
        y   == yoe + era * 400 + (IF m <= 2 THEN 1 ELSE 0)
    IN  [year |-> y, month |-> m, day |-> d]

\* datetime(y, m, d).date()
datetime_date(y, m, d) == [year |-> y, month |-> m, day |-> d]

\* pd.to_datetime on a column that already holds Timestamps (the column comes
\* out of a DatetimeIndex, or between_time would have raised): same instants
to_datetime(column) ==
    [i \in 1..Len(column) |-> [days |-> column[i].days, minutes |-> column[i].minutes]]

\* the override table of add_holiday_info
special_dates ==
    (datetime_date(2026, 11, 27) :> "Black Friday") @@
    (datetime_date(2026, 12, 24) :> "Christmas Eve") @@
    (datetime_date(2026, 12, 31) :> "New Year's Eve") @@
    (datetime_date(2025, 11, 28) :> "Black Friday") @@
    (datetime_date(2025, 12, 24) :> "Christmas Eve") @@
    (datetime_date(2025, 12, 31) :> "New Year's Eve")

\* the name the official calendar gives a date it holds
OfficialName(d) ==
    CASE d.month = 12 /\ d.day = 25 -> "Christmas Day"
      [] d.month = 12 /\ d.day = 26 -> "Boxing Day"
      [] d.month = 1  /\ d.day = 1  -> "New Year's Day"
      [] OTHER -> "Statutory Holiday"

\* the official calendars a run may see over the given dates: any choice of at
\* most MaxHolidays of them, each with its name
Calendars(dates) ==
    {[d \in H |-> OfficialName(d)] :
        H \in {S \in SUBSET dates : Cardinality(S) <= MaxHolidays}}

----------------------------------------------------------------------------
Init ==
    /\ pc = "makedirs"
    /\ calls = <<>>
    /\ printed = <<>>
    /\ exception = NoException
    /\ caught = <<>>
    /\ models = [visitors |-> None, vehicles |-> None, traffic |-> None]
    /\ fetched = None
    /\ ca_holidays = None
    /\ weather_data = None
    /\ X_stage1 = None
    /\ X_stage2 = None
    /\ batch_data = None
    /\ charts = None
    /\ files = [html |-> "absent", csv |-> "absent"]
    /\ previous = None

\* main, line 284: os.makedirs(OUTPUT_DIR, exist_ok=True), before the try block
MakeDirs ==
    /\ pc = "makedirs"
    /\ calls' = Append(calls, "os.makedirs")
    /\ \/ /\ pc' = "connect"
          /\ UNCHANGED exception
       \/ /\ pc' = "escaped"
          /\ exception' = "os.makedirs"
    /\ UNCHANGED <<previous, printed, caught, models, fetched, ca_holidays, weather_data,
                   X_stage1, X_stage2, batch_data, charts, files>>

----------------------------------------------------------------------------
(* Regression models *)

\* the models the registry may serve under each name: opaque to the program,
\* here affine in the features, read by position
VisitorsModels ==
    {[bias |-> 100, weights |-> <<0, 0, 0, 0, 0>>],
     [bias |-> 100, weights |-> <<40, 2, 0, 1, 0>>]}

VehiclesModels ==
    {[bias |-> 50, weights |-> <<0, 0, 0, 0, 0>>],
     [bias |-> 50, weights |-> <<15, 1, 3, 0, 0>>]}

TrafficModels ==
    {[bias |-> 30, weights |-> <<0, 0, 0, 0, 0, 0, 0>>],
     [bias |-> 30, weights |-> <<1, 7, 2, 1, 0, 0, 0>>]}

\* whether the feature matrix has the shape the model was trained on
ShapeMatches(model, X) == Len(X.columns) = Len(model.weights)

\* model.predict(X): one value per row of X, in row order, from one batch call
predict(model, X) ==
    [i \in 1..NRows(X) |->
        model.bias +
        Sum([j \in 1..Len(X.columns) |-> model.weights[j] * X.rows[i][X.columns[j]]])]

----------------------------------------------------------------------------
(* TrafficPredictor.__init__ *)

\* the external calls of _connect_hopsworks, in order
ConnectCalls == <<"hopsworks.login", "get_feature_store", "get_model_registry">>

\* the external calls of _load_models, in order
LoadCalls ==
    <<"get_model:visitors", "download:visitors", "load_model:visitors",
      "get_model:vehicles", "download:vehicles", "load_model:vehicles",
      "get_model:traffic",  "download:traffic",  "load_model:traffic">>

\* _connect_hopsworks: the k-th call raises, or (k past the last) none does
ConnectHopsworks ==
    /\ pc = "connect"
    /\ \E k \in 1..(Len(ConnectCalls) + 1) :
        /\ calls' = calls \o SubSeq(ConnectCalls, 1, Min(k, Len(ConnectCalls)))
        /\ IF k <= Len(ConnectCalls)
           THEN /\ exception' = ConnectCalls[k]
                /\ pc' = "handler"
                /\ UNCHANGED printed
           ELSE /\ UNCHANGED exception
                /\ pc' = "load_models"
                /\ printed' = Append(printed, "Connected successfully")
    /\ UNCHANGED <<previous, caught, models, fetched, ca_holidays, weather_data,
                   X_stage1, X_stage2, batch_data, charts, files>>

\* _load_models: the k-th call raises, or none does; a model attribute is set
\* once its load_model call has returned
LoadModels ==
    /\ pc = "load_models"
    /\ \E k \in 1..(Len(LoadCalls) + 1) :
       \E mv \in VisitorsModels, mc \in VehiclesModels, mt \in TrafficModels :
        /\ calls' = calls \o SubSeq(LoadCalls, 1, Min(k, Len(LoadCalls)))
        /\ models' = [visitors |-> IF k > 3 THEN mv ELSE None,
                      vehicles |-> IF k > 6 THEN mc ELSE None,
                      traffic  |-> IF k > 9 THEN mt ELSE None]
        /\ IF k <= Len(LoadCalls)
           THEN /\ exception' = LoadCalls[k]
                /\ pc' = "handler"
           ELSE /\ UNCHANGED exception
                /\ pc' = "get_weather_forecast"
    /\ UNCHANGED <<previous, printed, caught, fetched, ca_holidays, weather_data,
                   X_stage1, X_stage2, batch_data, charts, files>>

----------------------------------------------------------------------------
(* run_full_prediction *)

\* run_full_prediction returning the stage-1 frame, stage 2 left out
StepAfter_SkipStage2(step) ==
    CASE step = "get_weather_forecast" -> "add_holiday_info"
      [] step = "add_holiday_info"     -> "predict_stage1"
      [] step = "predict_stage1"       -> "return"
      [] step = "predict_stage2"       -> "return"

\* lines 250-268: what run_full_prediction does after a step has returned
\* normally (after get_weather_forecast: when it returned a table)
StepAfter(step) ==
    CASE step = "get_weather_forecast" -> "add_holiday_info"
      [] step = "add_holiday_info"     -> "predict_stage1"
      [] step = "predict_stage1"       -> "predict_stage2"
      [] step = "predict_stage2"       -> "return"

\* df has every column named in names
HasColumns(df, names) == Range(names) \subseteq Range(df.columns)

----------------------------------------------------------------------------
(* get_weather_forecast *)

ForecastColumns ==
    <<"date", "temperature_2m_mean", "precipitation_sum",
      "wind_speed_10m_max", "wind_direction_10m_dominant">>

\* the times of day of the hourly rows of one day, in order
Hours == <<0, 720>>

\* util.get_hourly_weather_forecast: n days from day `start`, a row per time of
\* Hours on each day, the noon temperature of the first day being t
hourly_forecast(start, n, t) ==
    [columns |-> ForecastColumns,
     rows |-> [i \in 1..(n * Len(Hours)) |->
        LET k == (i - 1) \div Len(Hours)
            h == Hours[((i - 1) % Len(Hours)) + 1]
        IN  [date |-> [days |-> start + k, minutes |-> h],
             temperature_2m_mean |-> t + k - (IF h = 720 THEN 0 ELSE 4),
             precipitation_sum |-> k % 3,
             wind_speed_10m_max |-> 10 + k,
             wind_direction_10m_dominant |-> 180]]]

\* set_index('date'), between_time(start_time, end_time), reset_index(): the
\* rows whose time of day lies in the closed interval, in their order
between_time(df, start_time, end_time) ==
    LET InWindow(row) == /\ start_time <= row.date.minutes
                         /\ row.date.minutes <= end_time
    IN  [columns |-> df.columns, rows |-> SelectSeq(df.rows, InWindow)]

\* lines 90-114, and lines 251-253 of run_full_prediction: an exception of the
\* provider is caught here and turned into None, on which run_full_prediction
\* returns None
GetWeatherForecast ==
    /\ pc = "get_weather_forecast"
    /\ calls' = calls \o <<"get_weather_forecast", "get_hourly_weather_forecast">>
    /\ \/ /\ caught' = Append(caught, <<"get_weather_forecast", "get_hourly_weather_forecast">>)
          /\ printed' = Append(printed, "Error fetching weather")
          /\ batch_data' = None
          /\ pc' = "check_result"
          /\ UNCHANGED <<fetched, weather_data>>
       \/ \E start \in StartDays, n \in ForecastLengths, t \in Temperatures :
            LET hourly_df == hourly_forecast(start, n, t)
                daily_weather == between_time(hourly_df, 719, 721)
            IN  /\ fetched' = daily_weather
                /\ weather_data' = daily_weather
                /\ printed' = Append(printed, "Retrieved weather data")
                /\ pc' = StepAfter("get_weather_forecast")
                /\ UNCHANGED <<caught, batch_data>>
    /\ UNCHANGED <<previous, exception, models, ca_holidays, X_stage1, X_stage2, charts, files>>

----------------------------------------------------------------------------
(* add_holiday_info *)

\* is_holiday with the weekend test off by one: Saturday is not a weekend day
is_holiday_SundayOnly(date_obj, calendar) ==
    IF dayofweek(date_obj) > 5 THEN 1
    ELSE IF date(date_obj) \in DOMAIN calendar THEN 1
    ELSE IF date(date_obj) \in DOMAIN special_dates THEN 1
    ELSE 0

\* is_holiday without the lookup in the override table
is_holiday_NoOverride(date_obj, calendar) ==
    IF dayofweek(date_obj) >= 5 THEN 1
    ELSE IF date(date_obj) \in DOMAIN calendar THEN 1
    ELSE 0

\* is_holiday (lines 136-146), with the calendar it closes over
is_holiday(date_obj, calendar) ==
    IF dayofweek(date_obj) >= 5 THEN 1
    ELSE IF date(date_obj) \in DOMAIN calendar THEN 1
    ELSE IF date(date_obj) \in DOMAIN special_dates THEN 1
    ELSE 0

\* get_holiday_name without the lookup in the override table
get_holiday_name_NoOverride(date_obj, calendar) ==
    IF dayofweek(date_obj) = 5 THEN "Saturday"
    ELSE IF dayofweek(date_obj) = 6 THEN "Sunday"
    ELSE IF date(date_obj) \in DOMAIN calendar THEN calendar[date(date_obj)]
    ELSE ""

\* get_holiday_name with the override table looked up before the calendar
get_holiday_name_OverrideFirst(date_obj, calendar) ==
    IF dayofweek(date_obj) = 5 THEN "Saturday"
    ELSE IF dayofweek(date_obj) = 6 THEN "Sunday"
    ELSE IF date(date_obj) \in DOMAIN special_dates THEN special_dates[date(date_obj)]
    ELSE IF date(date_obj) \in DOMAIN calendar THEN calendar[date(date_obj)]
    ELSE ""

\* get_holiday_name (lines 148-159), with the calendar it closes over
get_holiday_name(date_obj, calendar) ==
    IF dayofweek(date_obj) = 5 THEN "Saturday"
    ELSE IF dayofweek(date_obj) = 6 THEN "Sunday"
    ELSE IF date(date_obj) \in DOMAIN calendar THEN calendar[date(date_obj)]
    ELSE IF date(date_obj) \in DOMAIN special_dates THEN special_dates[date(date_obj)]
    ELSE ""

\* the body of add_holiday_info on frame df under the given calendar: the date
\* column converted, then the columns holidays and holiday_name added
annotate(df, calendar) ==
    LET df1 == SetColumn(df, "date", to_datetime(Column(df, "date")))
        dates == Column(df1, "date")
        df2 == SetColumn(df1, "holidays",
                         [i \in 1..Len(dates) |-> is_holiday(dates[i], calendar)])
    IN  SetColumn(df2, "holiday_name",
                  [i \in 1..Len(dates) |-> get_holiday_name(dates[i], calendar)])

\* lines 116-179, called at line 256; building the calendar may raise; the
\* holidays library is deterministic, so a later call builds the same calendar
AddHolidayInfo ==
    /\ pc = "add_holiday_info"
    /\ calls' = Append(calls, "add_holiday_info")
    /\ \/ /\ exception' = "holidays.Canada"
          /\ pc' = "handler"
          /\ UNCHANGED <<ca_holidays, weather_data, printed>>
       \/ \E calendar \in (IF previous = None
                            THEN Calendars({date(r.date) : r \in Range(weather_data.rows)})
                            ELSE {ca_holidays}) :
            /\ ca_holidays' = calendar
            /\ weather_data' = annotate(weather_data, calendar)
            /\ printed' = Append(printed,
                   IF Sum(Column(weather_data', "holidays")) > 0
                   THEN "Found holiday(s)/weekend(s)"
                   ELSE "No holidays in forecast period")
            /\ pc' = StepAfter("add_holiday_info")
            /\ UNCHANGED exception
    /\ UNCHANGED <<previous, caught, models, fetched, X_stage1, X_stage2,
                   batch_data, charts, files>>

----------------------------------------------------------------------------
(* predict_stage1, predict_stage2 *)

stage1_features ==
    <<"holidays", "temperature_2m_mean", "precipitation_sum",
      "wind_speed_10m_max", "wind_direction_10m_dominant">>

\* the stage-2 features with the two stage-1 outputs in each other's place
stage2_features_VehiclesFirst ==
    <<"vehicles", "holidays", "visitors", "temperature_2m_mean",
      "precipitation_sum", "wind_speed_10m_max", "wind_direction_10m_dominant">>

stage2_features ==
    <<"visitors", "holidays", "vehicles", "temperature_2m_mean",
      "precipitation_sum", "wind_speed_10m_max", "wind_direction_10m_dominant">>

\* the visitors prediction followed by a sort that turns the rows around
AfterVisitors_Reversed(df, X) ==
    LET out == SetColumn(df, "predicted_visitors", predict(models.visitors, X))
    IN  [columns |-> out.columns,
         rows |-> [i \in 1..NRows(out) |-> out.rows[NRows(out) + 1 - i]]]

\* the vehicles prediction added to the column when the frame already has it
AfterVehicles_Accumulate(df, X) ==
    SetColumn(df, "predicted_vehicles",
        [i \in 1..NRows(X) |->
            predict(models.vehicles, X)[i] +
            (IF "predicted_vehicles" \in Range(df.columns)
             THEN df.rows[i].predicted_vehicles ELSE 0)])

\* lines 196-201: the frame after the visitors prediction
AfterVisitors(df, X) ==
    SetColumn(df, "predicted_visitors", predict(models.visitors, X))

\* lines 206-207: the frame after the vehicles prediction
AfterVehicles(df, X) ==
    SetColumn(df, "predicted_vehicles", predict(models.vehicles, X))

\* lines 181-210, called at line 259: selecting a missing column raises
\* KeyError, each predict may raise; the frame is changed in place, so a column
\* written before a failure stays written
PredictStage1 ==
    /\ pc = "predict_stage1"
    /\ LET ok == HasColumns(weather_data, stage1_features)
           X == SelectColumns(weather_data, stage1_features)
       IN  /\ X_stage1' = IF ok THEN X ELSE X_stage1
           /\ \/ /\ calls' = calls \o (IF ok THEN <<"predict_stage1", "model_visitors.predict">>
                                       ELSE <<"predict_stage1">>)
                 /\ exception' = IF ok THEN "model_visitors.predict" ELSE "KeyError"
                 /\ pc' = "handler"
                 /\ UNCHANGED weather_data
              \/ /\ ok
                 /\ ShapeMatches(models.visitors, X)
                 /\ calls' = calls \o <<"predict_stage1", "model_visitors.predict",
                                        "model_vehicles.predict">>
                 /\ exception' = "model_vehicles.predict"
                 /\ pc' = "handler"
                 /\ weather_data' = AfterVisitors(weather_data, X)
              \/ /\ ok
                 /\ ShapeMatches(models.visitors, X)
                 /\ ShapeMatches(models.vehicles, X)
                 /\ calls' = calls \o <<"predict_stage1", "model_visitors.predict",
                                        "model_vehicles.predict">>
                 /\ weather_data' = AfterVehicles(AfterVisitors(weather_data, X), X)
                 /\ pc' = StepAfter("predict_stage1")
                 /\ UNCHANGED exception
    /\ UNCHANGED <<previous, printed, caught, models, fetched, ca_holidays, X_stage2,
                   batch_data, charts, files>>

\* the aliasing with the two source columns exchanged
stage2_matrix_Swapped(data_with_stage1) ==
    LET copy == data_with_stage1
        with_visitors == SetColumn(copy, "visitors", Column(copy, "predicted_vehicles"))
        batch_data_stage2 ==
            SetColumn(with_visitors, "vehicles", Column(with_visitors, "predicted_visitors"))
    IN  SelectColumns(batch_data_stage2, stage2_features)

\* lines 219-234: the copy of the stage-1 frame with the predictions aliased to
\* the traffic model's feature names, reduced to the stage-2 features
stage2_matrix(data_with_stage1) ==
    LET copy == data_with_stage1
        with_visitors == SetColumn(copy, "visitors", Column(copy, "predicted_visitors"))
        batch_data_stage2 ==
            SetColumn(with_visitors, "vehicles", Column(with_visitors, "predicted_vehicles"))
    IN  SelectColumns(batch_data_stage2, stage2_features)

\* predict_stage2 with a handler of its own around the traffic prediction: on
\* a failure the stage-1 frame is returned as the result
PredictStage2_Swallow ==
    /\ pc = "predict_stage2"
    /\ calls' = calls \o <<"predict_stage2", "model_traffic.predict">>
    /\ X_stage2' = stage2_matrix(weather_data)
    /\ \/ /\ caught' = Append(caught, <<"predict_stage2", "model_traffic.predict">>)
          /\ UNCHANGED weather_data
       \/ /\ weather_data' = SetColumn(weather_data, "predicted_traffic_count",
                                       predict(models.traffic, X_stage2'))
          /\ UNCHANGED caught
    /\ pc' = StepAfter("predict_stage2")
    /\ UNCHANGED <<previous, printed, exception, models, fetched, ca_holidays, X_stage1,
                   batch_data, charts, files>>

\* lines 212-242, called at line 262
PredictStage2 ==
    /\ pc = "predict_stage2"
    /\ LET ok == HasColumns(weather_data, <<"predicted_visitors", "predicted_vehicles">>)
                 /\ HasColumns(weather_data, stage1_features)
           X == stage2_matrix(weather_data)
       IN  /\ X_stage2' = IF ok THEN X ELSE X_stage2
           /\ calls' = calls \o (IF ok THEN <<"predict_stage2", "model_traffic.predict">>
                                 ELSE <<"predict_stage2">>)
           /\ \/ /\ exception' = IF ok THEN "model_traffic.predict" ELSE "KeyError"
                 /\ pc' = "handler"
                 /\ UNCHANGED weather_data
              \/ /\ ok
                 /\ ShapeMatches(models.traffic, X)
                 /\ weather_data' = SetColumn(weather_data, "predicted_traffic_count",
                                              predict(models.traffic, X))
                 /\ pc' = StepAfter("predict_stage2")
                 /\ UNCHANGED exception
    /\ UNCHANGED <<previous, printed, caught, models, fetched, ca_holidays, X_stage1,
                   batch_data, charts, files>>

\* run_full_prediction returning the traffic model's feature matrix
ReturnPredictions_FeatureMatrix ==
    /\ pc = "return"
    /\ batch_data' = X_stage2
    /\ printed' = Append(printed, "Prediction Pipeline Complete!")
    /\ pc' = "check_result"
    /\ UNCHANGED <<previous, calls, exception, caught, models, fetched, ca_holidays,
                   weather_data, X_stage1, X_stage2, charts, files>>

\* lines 264-268, and the assignment of line 289: the frame itself is returned
ReturnPredictions ==
    /\ pc = "return"
    /\ batch_data' = weather_data
    /\ printed' = Append(printed, "Prediction Pipeline Complete!")
    /\ pc' = "check_result"
    /\ UNCHANGED <<previous, calls, exception, caught, models, fetched, ca_holidays,
                   weather_data, X_stage1, X_stage2, charts, files>>

----------------------------------------------------------------------------
(* main, after run_full_prediction *)

\* main without the test of lines 291-293
CheckResult_IgnoreNone ==
    /\ pc = "check_result"
    /\ pc' = "charts"
    /\ UNCHANGED <<previous, calls, printed, exception, caught, models, fetched, ca_holidays,
                   weather_data, X_stage1, X_stage2, batch_data, charts, files>>

\* lines 291-293
CheckResult ==
    /\ pc = "check_result"
    /\ IF batch_data = None
       THEN /\ printed' = Append(printed, "Prediction failed!")
            /\ pc' = "prediction_failed"
       ELSE /\ pc' = "charts"
            /\ UNCHANGED printed
    /\ UNCHANGED <<previous, calls, exception, caught, models, fetched, ca_holidays,
                   weather_data, X_stage1, X_stage2, batch_data, charts, files>>

\* the columns the reporting functions read without a default
ReportColumns ==
    {"date", "predicted_visitors", "predicted_vehicles", "predicted_traffic_count"}

\* lines 296-298; generate_dashboard.py create_prediction_charts: the charts are
\* held in memory; a missing column raises KeyError, plotting may raise
CreatePredictionCharts ==
    /\ pc = "charts"
    /\ calls' = Append(calls, "create_prediction_charts")
    /\ \/ /\ exception' = "create_prediction_charts"
          /\ pc' = "handler"
          /\ UNCHANGED <<charts, printed>>
       \/ /\ batch_data # None
          /\ ReportColumns \subseteq Range(batch_data.columns)
          /\ charts' = [visitors |-> "png", vehicles |-> "png", traffic |-> "png"]
          /\ printed' = Append(printed, "Charts generated")
          /\ pc' = "html"
          /\ UNCHANGED exception
    /\ UNCHANGED <<previous, caught, models, fetched, ca_holidays, weather_data,
                   X_stage1, X_stage2, batch_data, files>>

\* lines 301-303; generate_dashboard.py generate_html_dashboard: idxmax of an
\* empty column raises ValueError before the file is opened; opening the file
\* may raise, and writing may raise after the file was created
GenerateHtmlDashboard ==
    /\ pc = "html"
    /\ calls' = Append(calls, "generate_html_dashboard")
    /\ \/ /\ exception' = "generate_html_dashboard"
          /\ pc' = "handler"
          /\ UNCHANGED <<files, printed>>
       \/ /\ ReportColumns \subseteq Range(batch_data.columns)
          /\ NRows(batch_data) > 0
          /\ exception' = "generate_html_dashboard"
          /\ pc' = "handler"
          /\ files' = [files EXCEPT !.html = "partial"]
          /\ UNCHANGED printed
       \/ /\ ReportColumns \subseteq Range(batch_data.columns)
          /\ NRows(batch_data) > 0
          /\ files' = [files EXCEPT !.html = "written"]
          /\ printed' = Append(printed, "HTML dashboard saved")
          /\ pc' = "csv"
          /\ UNCHANGED exception
    /\ UNCHANGED <<previous, caught, models, fetched, ca_holidays, weather_data,
                   X_stage1, X_stage2, batch_data, charts>>

\* lines 306-308: batch_data.to_csv may raise before or after creating the file
SaveCsv ==
    /\ pc = "csv"
    /\ calls' = Append(calls, "to_csv")
    /\ \/ /\ exception' = "to_csv"
          /\ pc' = "handler"
          /\ \E left \in {"absent", "partial"} : files' = [files EXCEPT !.csv = left]
          /\ UNCHANGED printed
       \/ /\ files' = [files EXCEPT !.csv = "written"]
          /\ printed' = Append(printed, "Predictions saved to CSV")
          /\ pc' = "stats"
          /\ UNCHANGED exception
    /\ UNCHANGED <<previous, caught, models, fetched, ca_holidays, weather_data,
                   X_stage1, X_stage2, batch_data, charts>>

\* the success message printed before the statistics
DisplayStatistics_SuccessFirst ==
    /\ pc = "stats"
    /\ calls' = Append(calls, "statistics")
    /\ printed' = Append(printed, "Daily update completed successfully!")
    /\ \/ /\ exception' = "statistics"
          /\ pc' = "handler"
       \/ /\ pc' = "done"
          /\ UNCHANGED exception
    /\ UNCHANGED <<previous, caught, models, fetched, ca_holidays, weather_data,
                   X_stage1, X_stage2, batch_data, charts, files>>

\* lines 310-321: the statistics, then the success message
DisplayStatistics ==
    /\ pc = "stats"
    /\ calls' = Append(calls, "statistics")
    /\ \/ /\ exception' = "statistics"
          /\ pc' = "handler"
          /\ UNCHANGED printed
       \/ /\ NRows(batch_data) > 0
          /\ printed' = Append(printed, "Daily update completed successfully!")
          /\ pc' = "done"
          /\ UNCHANGED exception
    /\ UNCHANGED <<previous, caught, models, fetched, ca_holidays, weather_data,
                   X_stage1, X_stage2, batch_data, charts, files>>

\* the handler printing the message only, without traceback.print_exc()
ExceptHandler_NoTraceback ==
    /\ pc = "handler"
    /\ caught' = Append(caught, <<"main", exception>>)
    /\ printed' = Append(printed, "Error during daily update")
    /\ exception' = NoException
    /\ pc' = "error_logged"
    /\ UNCHANGED <<previous, calls, models, fetched, ca_holidays, weather_data,
                   X_stage1, X_stage2, batch_data, charts, files>>

\* lines 323-326: the handler of main's try block
ExceptHandler ==
    /\ pc = "handler"
    /\ caught' = Append(caught, <<"main", exception>>)
    /\ printed' = printed \o <<"Error during daily update", "traceback">>
    /\ exception' = NoException
    /\ pc' = "error_logged"
    /\ UNCHANGED <<previous, calls, models, fetched, ca_holidays, weather_data,
                   X_stage1, X_stage2, batch_data, charts, files>>

Next ==
    \/ MakeDirs
    \/ ConnectHopsworks
    \/ LoadModels
    \/ GetWeatherForecast
    \/ AddHolidayInfo
    \/ PredictStage1
    \/ PredictStage2
    \/ ReturnPredictions
    \/ CheckResult
    \/ CreatePredictionCharts
    \/ GenerateHtmlDashboard
    \/ SaveCsv
    \/ DisplayStatistics
    \/ ExceptHandler

Spec == Init /\ [][Next]_vars

----------------------------------------------------------------------------
(* run_full_prediction called twice *)

\* lines 244-253, a second time on the same predictor, the weather provider
\* stubbed to the forecast of the first call: get_weather_forecast returns
\* either an equal new table, or the very table it returned before, which the
\* first call has changed in place; previous keeps what the first call returned
RunAgain ==
    /\ pc = "check_result"
    /\ batch_data # None
    /\ previous = None
    /\ previous' = batch_data
    /\ calls' = calls \o <<"get_weather_forecast", "get_hourly_weather_forecast">>
    /\ \E daily_weather \in {fetched, weather_data} : weather_data' = daily_weather
    /\ printed' = Append(printed, "Retrieved weather data")
    /\ pc' = StepAfter("get_weather_forecast")
    /\ UNCHANGED <<exception, caught, models, fetched, ca_holidays, X_stage1,
                   X_stage2, batch_data, charts, files>>

NextTwice ==
    \/ Next
    \/ RunAgain

SpecTwice == Init /\ [][NextTwice]_vars

----------------------------------------------------------------------------
(* Properties *)

\* add_holiday_info has returned: the frame carries its two columns
Annotated ==
    /\ weather_data # None
    /\ HasColumns(weather_data, <<"holidays", "holiday_name">>)

\* the rows of the annotated frame
Rows == 1..NRows(weather_data)

\* the timestamp the weather provider gave row i
FetchedDate(i) == fetched.rows[i].date

Weekend(ts) == dayofweek(ts) \in {5, 6}
Official(ts) == date(ts) \in DOMAIN ca_holidays
Override(ts) == date(ts) \in DOMAIN special_dates

\* C1: every row whose date is a Saturday or a Sunday is marked day-off = 1,
\* whether or not the date is in the official calendar or the override table.
C1_WeekendIsDayOff ==
    Annotated =>
        \A i \in Rows :
            Weekend(FetchedDate(i)) => weather_data.rows[i].holidays = 1

\* a Saturday that the official calendar also holds has been annotated, and so
\* has a Sunday that it does not hold
C1_Witness ==
    /\ Annotated
    /\ \E i \in Rows : /\ dayofweek(FetchedDate(i)) = 5
                       /\ Official(FetchedDate(i))
                       /\ weather_data.rows[i].holidays = 1
    /\ \E i \in Rows : /\ dayofweek(FetchedDate(i)) = 6
                       /\ ~Official(FetchedDate(i))
                       /\ weather_data.rows[i].holidays = 1

\* C2: each row gets exactly one label, by the precedence weekend name >
\* official name > override name > "": a date in both the official calendar
\* and the override table gets the official name, and an override name is
\* returned only for a weekday that is not an official holiday.
C2_LabelPrecedence ==
    Annotated =>
        \A i \in Rows :
            LET ts == FetchedDate(i)
                label == weather_data.rows[i].holiday_name
            IN  /\ dayofweek(ts) = 5 => label = "Saturday"
                /\ dayofweek(ts) = 6 => label = "Sunday"
                /\ (~Weekend(ts) /\ Official(ts)) => label = ca_holidays[date(ts)]
                /\ (~Weekend(ts) /\ Official(ts) /\ Override(ts)) =>
                        label # special_dates[date(ts)]
                /\ (Override(ts) /\ label = special_dates[date(ts)]) =>
                        (~Weekend(ts) /\ ~Official(ts))
                /\ (~Weekend(ts) /\ ~Official(ts) /\ Override(ts)) =>
                        label = special_dates[date(ts)]
                /\ (~Weekend(ts) /\ ~Official(ts) /\ ~Override(ts)) => label = ""

\* a weekday in both the official calendar and the override table has been
\* annotated and carries the official name
C2_Witness ==
    /\ Annotated
    /\ \E i \in Rows : /\ ~Weekend(FetchedDate(i))
                       /\ Official(FetchedDate(i))
                       /\ Override(FetchedDate(i))
                       /\ weather_data.rows[i].holiday_name = "Statutory Holiday"

\* the rows of the annotated frame marked day-off
DayOffRows == {i \in Rows : weather_data.rows[i].holidays = 1}

\* the forecast of the end-to-end scenario: 7 rows, one Saturday, one Sunday,
\* five weekdays in neither the official calendar nor the override table
ScenarioTable ==
    /\ NRows(fetched) = 7
    /\ Cardinality({i \in 1..7 : dayofweek(FetchedDate(i)) = 5}) = 1
    /\ Cardinality({i \in 1..7 : dayofweek(FetchedDate(i)) = 6}) = 1
    /\ \A i \in 1..7 : ~Weekend(FetchedDate(i)) =>
            (~Official(FetchedDate(i)) /\ ~Override(FetchedDate(i)))

\* C3: a row is marked day-off = 1 iff its date is a weekend day, an official
\* holiday or an override date; every other row gets 0 and the label "".  The
\* frame keeps its rows, in their order.  In the 7-row scenario exactly the
\* Saturday and the Sunday row are day-off and five rows have 0 and "".
C3_DayOffRows ==
    Annotated =>
        /\ NRows(weather_data) = NRows(fetched)
        /\ \A i \in Rows :
              LET ts == FetchedDate(i)
                  row == weather_data.rows[i]
              IN  /\ row.date = ts
                  /\ \A c \in Range(fetched.columns) : row[c] = fetched.rows[i][c]
                  /\ row.holidays \in {0, 1}
                  /\ row.holidays = 1 <=> (Weekend(ts) \/ Official(ts) \/ Override(ts))
                  /\ row.holidays = 0 => row.holiday_name = ""
        /\ ScenarioTable =>
              /\ Cardinality(DayOffRows) = 2
              /\ {weather_data.rows[i].holiday_name : i \in DayOffRows}
                    = {"Saturday", "Sunday"}
              /\ Cardinality({i \in Rows : /\ weather_data.rows[i].holidays = 0
                                            /\ weather_data.rows[i].holiday_name = ""}) = 5

\* the scenario table has been annotated
C3_Witness ==
    /\ Annotated
    /\ ScenarioTable
    /\ Cardinality(DayOffRows) = 2

\* the steps of run_full_prediction, in the order of its body
PipelineSteps ==
    <<"get_weather_forecast", "add_holiday_info", "predict_stage1", "predict_stage2">>

\* the pipeline steps invoked so far, in the order of their invocation
StepsRun ==
    LET IsStep(c) == c \in Range(PipelineSteps)
    IN  SelectSeq(calls, IsStep)

\* C4: the steps run in the order FetchWeather, AnnotateCalendar, Stage1,
\* Stage2, each at most once, none skipped, each only after the one before it
\* has returned; a result is returned only after stage 2 has completed.
C4_LinearPipeline ==
    /\ Len(StepsRun) <= Len(PipelineSteps)
    /\ StepsRun = SubSeq(PipelineSteps, 1, Len(StepsRun))
    /\ \A k \in 1..Len(PipelineSteps) :
          pc = PipelineSteps[k] => Len(StepsRun) = k - 1
    /\ (pc = "return" \/ batch_data # None) =>
          /\ StepsRun = PipelineSteps
          /\ Count(calls, "model_traffic.predict") = 1
          /\ HasColumns(weather_data, <<"predicted_traffic_count">>)

\* run_full_prediction has returned a result to main
C4_Witness ==
    /\ pc = "charts"
    /\ batch_data # None
    /\ StepsRun = PipelineSteps
    /\ NRows(batch_data) = MaxDays

AllAbsent == \A f \in DOMAIN files : files[f] = "absent"

\* the weather fetch is over and yielded nothing: no table, or an empty one
FetchedNothing ==
    /\ "get_weather_forecast" \in Range(calls)
    /\ pc # "get_weather_forecast"
    /\ (fetched = None \/ NRows(fetched) = 0)

PredictCalls ==
    {"model_visitors.predict", "model_vehicles.predict", "model_traffic.predict"}

\* C5: when the weather fetch yields nothing (no table, or a table of zero
\* rows) the run stops after the fetch: no annotation, no stage 1 or 2, no
\* model invoked, no result, no chart, no HTML and no CSV file.
C5_NothingFetchedHalts ==
    FetchedNothing =>
        /\ StepsRun = <<"get_weather_forecast">>
        /\ Range(calls) \cap PredictCalls = {}
        /\ batch_data = None
        /\ pc \in {"check_result", "prediction_failed"}
        /\ charts = None
        /\ AllAbsent

\* the calls that have raised so far
Failed ==
    {c \in {exception} : c # NoException} \cup {caught[i][2] : i \in 1..Len(caught)}

\* C6, as claimed: every exception of a run is caught by the handler of main,
\* none leaves main, and no step has a handler of its own.
C6_AllCaughtAtTopLevel ==
    /\ pc # "escaped"
    /\ \A i \in 1..Len(caught) : caught[i][1] = "main"

\* C6, amended: an exception raised inside main's try block, the weather
\* provider's excepted, is caught exactly once, by the handler of main, which
\* prints the message and the stack trace; an exception of the weather
\* provider is caught by get_weather_forecast alone, which prints a message
\* without a stack trace and returns None; an exception of os.makedirs, raised
\* before the try block, leaves main.
C6_CaughtOnceWhereHandled ==
    /\ Len(caught) <= 1
    /\ exception = "os.makedirs" <=> pc = "escaped"
    /\ (exception # NoException /\ exception # "os.makedirs") => pc = "handler"
    /\ pc = "handler" => (exception # NoException /\ caught = <<>>)
    /\ \A i \in 1..Len(caught) :
          /\ caught[i][1] \in {"main", "get_weather_forecast"}
          /\ caught[i][1] = "get_weather_forecast" <=>
                caught[i][2] = "get_hourly_weather_forecast"
          /\ caught[i][2] \notin {"os.makedirs", NoException}
          /\ caught[i][1] = "main" =>
                /\ pc = "error_logged"
                /\ exception = NoException
                /\ Count(printed, "traceback") = 1
                /\ Count(printed, "Error during daily update") = 1
          /\ caught[i][1] = "get_weather_forecast" =>
                /\ pc \in {"check_result", "prediction_failed"}
                /\ exception = NoException
                /\ batch_data = None
                /\ Count(printed, "traceback") = 0
                /\ Count(printed, "Error fetching weather") = 1
    /\ pc = "error_logged" => (Len(caught) = 1 /\ caught[1][1] = "main")
    /\ Count(printed, "traceback") > 0 => pc = "error_logged"

\* a failed traffic prediction has been caught and logged by main
C6_Witness ==
    /\ pc = "error_logged"
    /\ caught = <<(<<"main", "model_traffic.predict">>)>>
    /\ Count(printed, "traceback") = 1

\* the calls to the model registry and to the weather provider
RegistryCalls == Range(ConnectCalls) \cup Range(LoadCalls)
ProviderCall == "get_hourly_weather_forecast"

\* C7: a failed call to the model registry or to the weather provider is not
\* retried and is the last call of the run: no annotation, no prediction, no
\* chart, no HTML and no CSV file follow it.
C7_ConnectivityFailureIsFatal ==
    \A c \in Failed \cap (RegistryCalls \cup {ProviderCall}) :
        /\ Count(calls, c) = 1
        /\ calls[Len(calls)] = c
        /\ Range(calls) \cap PredictCalls = {}
        /\ Range(calls) \cap {"add_holiday_info", "predict_stage1", "predict_stage2"} = {}
        /\ batch_data = None
        /\ charts = None
        /\ AllAbsent
        /\ pc \in {"handler", "error_logged", "check_result", "prediction_failed"}

\* the weather provider failed and main has returned
C7_Witness ==
    /\ pc = "prediction_failed"
    /\ ProviderCall \in Failed
    /\ models.traffic # None

\* C8: each model's predict is invoked at most once; a failed predict reaches
\* the handler of main as raised, nothing is invoked after it (no retry, no
\* later model), and run_full_prediction returns no result.
C8_PredictFailurePropagates ==
    /\ \A c \in PredictCalls : Count(calls, c) <= 1
    /\ \A c \in Failed \cap PredictCalls :
          /\ calls[Len(calls)] = c
          /\ \/ (pc = "handler" /\ exception = c /\ caught = <<>>)
             \/ (pc = "error_logged" /\ caught = <<(<<"main", c>>)>>)
          /\ c = "model_visitors.predict" =>
                Range(calls) \cap PredictCalls = {c}
          /\ c = "model_vehicles.predict" =>
                "model_traffic.predict" \notin Range(calls)
          /\ batch_data = None
          /\ charts = None
          /\ AllAbsent

\* the vehicles prediction failed after the visitors column was written
C8_Witness ==
    /\ pc = "error_logged"
    /\ caught = <<(<<"main", "model_vehicles.predict">>)>>
    /\ HasColumns(weather_data, <<"predicted_visitors">>)
    /\ NRows(weather_data) > 0

\* predict_stage1 has returned
Stage1Done ==
    /\ weather_data # None
    /\ HasColumns(weather_data, <<"predicted_visitors", "predicted_vehicles">>)

\* C9: the frame predict_stage1 returns has the rows of its input, in their
\* order, and the two columns predicted_visitors and predicted_vehicles after
\* the input's columns, each filled by one batch call of its model.
C9_Stage1KeepsRows ==
    Stage1Done =>
        /\ NRows(weather_data) = NRows(fetched)
        /\ NRows(X_stage1) = NRows(fetched)
        /\ SubSeq(weather_data.columns, 1, Len(fetched.columns) + 4) =
              fetched.columns \o <<"holidays", "holiday_name",
                                   "predicted_visitors", "predicted_vehicles">>
        /\ \A i \in Rows :
              /\ \A c \in Range(fetched.columns) :
                    weather_data.rows[i][c] = fetched.rows[i][c]
              /\ \A c \in Range(stage1_features) :
                    X_stage1.rows[i][c] = weather_data.rows[i][c]
              /\ weather_data.rows[i].predicted_visitors =
                    predict(models.visitors, X_stage1)[i]
              /\ weather_data.rows[i].predicted_vehicles =
                    predict(models.vehicles, X_stage1)[i]
        /\ Count(calls, "model_visitors.predict") = 1
        /\ Count(calls, "model_vehicles.predict") = 1

\* stage 1 has returned a full forecast whose predictions differ by row
C9_Witness ==
    /\ Stage1Done
    /\ NRows(weather_data) = MaxDays
    /\ weather_data.rows[1].predicted_visitors # weather_data.rows[2].predicted_visitors
    /\ weather_data.rows[1].predicted_vehicles # weather_data.rows[2].predicted_vehicles

\* C10: the visitors and vehicles features handed to the traffic model are,
\* row by row, the values stage 1 predicted for that row.
C10_Stage2Aliases ==
    X_stage2 # None =>
        /\ NRows(X_stage2) = NRows(weather_data)
        /\ X_stage2.columns = stage2_features
        /\ \A i \in Rows :
              /\ X_stage2.rows[i].visitors = weather_data.rows[i].predicted_visitors
              /\ X_stage2.rows[i].vehicles = weather_data.rows[i].predicted_vehicles
              /\ X_stage2.rows[i].visitors = predict(models.visitors, X_stage1)[i]
              /\ X_stage2.rows[i].vehicles = predict(models.vehicles, X_stage1)[i]

\* the traffic model was handed a full forecast whose stage-1 predictions
\* differ by row
C10_Witness ==
    /\ X_stage2 # None
    /\ NRows(X_stage2) = MaxDays
    /\ X_stage2.rows[1].visitors # X_stage2.rows[2].visitors
    /\ X_stage2.rows[1].vehicles # X_stage2.rows[2].vehicles
    /\ "model_traffic.predict" \in Range(calls)

\* a constant stub: a model that returns its bias whatever the features
IsStub(model) ==
    /\ model # None
    /\ \A j \in 1..Len(model.weights) : model.weights[j] = 0

AllStubs == IsStub(models.visitors) /\ IsStub(models.vehicles) /\ IsStub(models.traffic)

\* the four weather features
WeatherFeatures ==
    {"temperature_2m_mean", "precipitation_sum", "wind_speed_10m_max",
     "wind_direction_10m_dominant"}

\* C11: with constant stubs v, c, t for the three models, every row of the
\* result has predicted_visitors = v, predicted_vehicles = c and
\* predicted_traffic_count = t; the traffic stub is handed, per row and in the
\* order visitors, holidays, vehicles, temperature, precipitation, wind speed,
\* wind direction, the values v and c with the row's own day-off flag and
\* weather; the stage-1 stubs are handed the day-off flag and weather only.
C11_StubWiring ==
    (AllStubs /\ batch_data # None) =>
        /\ NRows(batch_data) = NRows(fetched)
        /\ X_stage1.columns =
              <<"holidays", "temperature_2m_mean", "precipitation_sum",
                "wind_speed_10m_max", "wind_direction_10m_dominant">>
        /\ X_stage2.columns =
              <<"visitors", "holidays", "vehicles", "temperature_2m_mean",
                "precipitation_sum", "wind_speed_10m_max",
                "wind_direction_10m_dominant">>
        /\ \A i \in 1..NRows(batch_data) :
              LET row == batch_data.rows[i]
                  dayoff == IF \/ Weekend(FetchedDate(i))
                               \/ Official(FetchedDate(i))
                               \/ Override(FetchedDate(i)) THEN 1 ELSE 0
              IN  /\ row.predicted_visitors = models.visitors.bias
                  /\ row.predicted_vehicles = models.vehicles.bias
                  /\ row.predicted_traffic_count = models.traffic.bias
                  /\ DOMAIN X_stage1.rows[i] = {"holidays"} \cup WeatherFeatures
                  /\ DOMAIN X_stage2.rows[i] =
                        {"visitors", "vehicles", "holidays"} \cup WeatherFeatures
                  /\ X_stage1.rows[i].holidays = dayoff
                  /\ X_stage2.rows[i].holidays = dayoff
                  /\ X_stage2.rows[i].visitors = models.visitors.bias
                  /\ X_stage2.rows[i].vehicles = models.vehicles.bias
                  /\ \A c \in WeatherFeatures :
                        /\ X_stage1.rows[i][c] = fetched.rows[i][c]
                        /\ X_stage2.rows[i][c] = fetched.rows[i][c]

\* the scenario of the specification: one working day with temperature 5,
\* precipitation 0, wind speed 10, wind direction 180, through the stubs 100,
\* 50 and 30
C11_Witness ==
    /\ AllStubs
    /\ batch_data # None
    /\ NRows(batch_data) = 1
    /\ X_stage1.rows[1] = [holidays |-> 0, temperature_2m_mean |-> 5,
                           precipitation_sum |-> 0, wind_speed_10m_max |-> 10,
                           wind_direction_10m_dominant |-> 180]
    /\ batch_data.rows[1].predicted_visitors = 100
    /\ batch_data.rows[1].predicted_vehicles = 50
    /\ batch_data.rows[1].predicted_traffic_count = 30
    /\ X_stage2.rows[1].visitors = 100
    /\ X_stage2.rows[1].vehicles = 50

\* the second call of run_full_prediction has returned
ReturnedTwice ==
    /\ previous # None
    /\ Count(printed, "Prediction Pipeline Complete!") = 2

\* C12: a second run of the orchestrator with the same forecast and the same
\* models returns a table identical to the first run's, whether its forecast
\* table is new or the one the first run worked on; the features it hands to
\* the models are those of the first run.
C12_SecondRunIdentical ==
    /\ ReturnedTwice =>
          /\ batch_data = previous
          /\ X_stage1 = SelectColumns(previous, X_stage1.columns)
          /\ \A i \in 1..NRows(previous) :
                /\ X_stage2.rows[i].visitors = previous.rows[i].predicted_visitors
                /\ X_stage2.rows[i].vehicles = previous.rows[i].predicted_vehicles
    /\ (previous # None /\ pc = "predict_stage2") =>
          /\ NRows(weather_data) = NRows(previous)
          /\ \A i \in 1..NRows(previous) :
                \A c \in Range(previous.columns) \ {"predicted_traffic_count"} :
                    weather_data.rows[i][c] = previous.rows[i][c]

\* a second run over a full forecast, with models sensitive to the features,
\* has returned
C12_Witness ==
    /\ ReturnedTwice
    /\ NRows(batch_data) = MaxDays
    /\ ~IsStub(models.visitors)
    /\ ~IsStub(models.vehicles)
    /\ ~IsStub(models.traffic)

\* main is in its reporting part
Reporting == pc \in {"charts", "html", "csv", "stats", "done"}

\* C13: a result returned by run_full_prediction holds, for every forecast
\* row, the columns date, predicted_visitors, predicted_vehicles,
\* predicted_traffic_count, holidays and temperature_2m_mean, so the reporting
\* functions read no column the pipeline did not deliver.
C13_ResultColumns ==
    /\ batch_data # None =>
          /\ {"date", "predicted_visitors", "predicted_vehicles",
              "predicted_traffic_count", "holidays", "temperature_2m_mean"}
                \subseteq Range(batch_data.columns)
          /\ NRows(batch_data) = NRows(fetched)
          /\ \A i \in 1..NRows(batch_data) :
                /\ DOMAIN batch_data.rows[i] = Range(batch_data.columns)
                /\ batch_data.rows[i].date = FetchedDate(i)
                /\ batch_data.rows[i].temperature_2m_mean =
                      fetched.rows[i].temperature_2m_mean
    /\ Reporting => batch_data # None
    /\ charts # None => batch_data # None

\* the HTML dashboard is about to be generated from a full result
C13_Witness ==
    /\ pc = "html"
    /\ charts # None
    /\ NRows(batch_data) = MaxDays
    /\ HasColumns(batch_data, <<"date", "predicted_visitors", "predicted_vehicles",
                                "predicted_traffic_count">>)

\* C14: in every annotated row the day-off flag and the label agree: holidays
\* is 1 exactly when holiday_name is not empty (the official calendar's names
\* being non-empty).
C14_FlagMatchesLabel ==
    Annotated =>
        \A i \in Rows :
            weather_data.rows[i].holidays = 1 <=> weather_data.rows[i].holiday_name # ""

\* an annotated table holds an override date, labelled and flagged, and a
\* working day, neither labelled nor flagged
C14_Witness ==
    /\ Annotated
    /\ \E i \in Rows : /\ Override(FetchedDate(i))
                       /\ ~Official(FetchedDate(i))
                       /\ weather_data.rows[i].holidays = 1
                       /\ weather_data.rows[i].holiday_name = "Black Friday"
    /\ \E i \in Rows : /\ weather_data.rows[i].holidays = 0
                       /\ weather_data.rows[i].holiday_name = ""

\* the reporting steps of main, in the order of its body
ReportingSteps ==
    <<"create_prediction_charts", "generate_html_dashboard", "to_csv", "statistics">>

\* the reporting steps invoked so far, in the order of their invocation
ReportingRun ==
    LET IsReport(c) == c \in Range(ReportingSteps)
    IN  SelectSeq(calls, IsReport)

SuccessPrinted == Count(printed, "Daily update completed successfully!") > 0

\* C15: the artifacts are produced in the order charts, HTML, CSV, each only
\* after the pipeline returned a result; the success message is printed only
\* when all three were produced; a run failing in the CSV write or in the
\* statistics ends in the handler with its HTML file on disk and no success
\* message.
C15_ArtifactOrder ==
    /\ ReportingRun = SubSeq(ReportingSteps, 1, Len(ReportingRun))
    /\ ReportingRun # <<>> => batch_data # None
    /\ charts # None => batch_data # None
    /\ files.html # "absent" => charts # None
    /\ files.csv # "absent" => files.html = "written"
    /\ SuccessPrinted =>
          /\ pc = "done"
          /\ charts # None
          /\ files.html = "written"
          /\ files.csv = "written"
          /\ Failed = {}
    /\ \A c \in Failed \cap {"to_csv", "statistics"} :
          /\ pc \in {"handler", "error_logged"}
          /\ files.html = "written"
          /\ ~SuccessPrinted
          /\ c = "statistics" => files.csv = "written"

\* the statistics failed after the HTML and the CSV file were written, and the
\* handler has logged it
C15_Witness ==
    /\ pc = "error_logged"
    /\ caught = <<(<<"main", "statistics">>)>>
    /\ files.html = "written"
    /\ files.csv = "written"
    /\ ~SuccessPrinted

====
